---- MODULE Spec2Model ----
(***************************************************************************)
(* Common::MemoryArena (src/src/common/memory_arena.cpp): one shared-memory *)
(* backing object, views of it mapped into the address space, the View     *)
(* handle that owns one mapping, and the address probe.  The operating      *)
(* system (descriptor table, shm namespace, address space) is modelled by  *)
(* what the calls made by the code do on each build the source selects     *)
(* with #if: WIN32, __linux__, and the fallback build ("other").           *)
(* Sizes, offsets and addresses are counted in pages.                      *)
(* The frontend's SignalHandler / HookSignals (src/unnamed/part_000) are    *)
(* modelled beside it, in the variable sig.                                *)
(***************************************************************************)
EXTENDS Integers, FiniteSets, Sequences, TLC

VARIABLES
  platform,     \* the build: "WIN32", "linux" or "other"
  fdTable,      \* OS descriptor/handle table: slot -> 0 (free), -1 (foreign), k (object k)
  objs,         \* OS shared-memory objects, by creation index
  addrSpace,    \* OS address space: page -> what is mapped there
  m_handle,     \* MemoryArena::m_shmem_fd / m_file_handle
  m_num_views,  \* MemoryArena::m_num_views
  arena,        \* "alive" until ~MemoryArena has run, then "destroyed"
  views,        \* the View objects, by construction index
  maps,         \* per successful create_view: what happened to its mapping
  th,           \* per thread: the call it is in
  panicked,     \* Panic() was reached, or a fault killed the process: it is gone
  last,         \* the last create_view, move, empty release, probe, protection
                \* change, read or write that returned
  mem,          \* the bytes of the shared-memory objects, and who wrote them
  sig           \* the signal dispositions and SignalHandler's invocations

vars == <<platform, fdTable, objs, addrSpace, m_handle, m_num_views, arena,
          views, maps, th, panicked, last, mem, sig>>

\* ------------------------------------------------------------------ bounds
MaxFd == 2
MaxCreates == 2
MaxSize == 1
MaxAddr == 2
MaxViews == 2
NumThreads == 2
MaxVal == 1
MemSize == 2
MemViews == 3
MaxSignals == 3

Platforms == {"WIN32", "linux", "other"}
Fds == 0..MaxFd
ObjIds == 1..MaxCreates
Sizes == 0..MaxSize
Addrs == 1..MaxAddr
ViewIds == 1..MaxViews
Threads == 1..NumThreads
Values == 0..MaxVal
\* the byte (page) offsets a view can name: offset + index
Bytes == 0..(2 * MemSize - 1)
MemViewIds == 1..MemViews
Signals == {"SIGINT", "SIGTERM"}

\* nullptr, and mmap's MAP_FAILED, reinterpret_cast<void*>(-1)
NullPtr == 0
MapFailed == 0 - 1

\* --------------------------------------------------- the operating system
NoObj == [exists |-> FALSE, name |-> 0, size |-> 0, writable |-> FALSE, named |-> FALSE]

\* The protection of a page: AsMapped stands for the protection its mapping call
\* asked for; a set of "r", "w", "x" is what a later protection change set.
AsMapped == {"asMapped"}

ProtNone == {}

FreePage == [kind |-> "free", map |-> 0, obj |-> 0, off |-> 0, prot |-> ProtNone]
ExtPage == [kind |-> "ext", map |-> 0, obj |-> 0, off |-> 0, prot |-> AsMapped]

\* The descriptor the OS hands out: the lowest free one.  A Windows handle is
\* never 0; a POSIX descriptor is 0 when descriptor 0 is free.
FreeSlots(p) == {f \in Fds : fdTable[f] = 0 /\ (p = "WIN32" => f # 0)}

LowestFree(p) == CHOOSE f \in FreeSlots(p) : \A g \in FreeSlots(p) : f <= g

NextObj == CHOOSE k \in ObjIds : ~objs[k].exists /\ \A j \in ObjIds : j < k => objs[j].exists

HaveObjSlot == \E k \in ObjIds : ~objs[k].exists

NamedObjs(size) == {k \in ObjIds : objs[k].exists /\ objs[k].named /\ objs[k].name = size}

\* The value a never-created arena holds in m_shmem_fd / m_file_handle.
NoDescriptor(p) == IF p = "WIN32" THEN 0 ELSE 0 - 1

\* Whether descriptor d refers to a shared-memory object.
IsShmFd(d) == d \in Fds /\ fdTable[d] \in ObjIds

ArenaObj == IF IsShmFd(m_handle) THEN objs[fdTable[m_handle]] ELSE NoObj

\* shm_open(name, O_CREAT | O_EXCL | mode, 0600): EEXIST when the name is taken,
\* EMFILE when the table is full; else a new, empty, named object on the lowest
\* free descriptor.
shm_open(size, writable) ==
  IF NamedObjs(size) # {} \/ FreeSlots("linux") = {}
  THEN [fd |-> 0 - 1, fdTable |-> fdTable, objs |-> objs]
  ELSE [fd |-> LowestFree("linux"),
        fdTable |-> [fdTable EXCEPT ![LowestFree("linux")] = NextObj],
        objs |-> [objs EXCEPT ![NextObj] =
                    [exists |-> TRUE, name |-> size, size |-> 0,
                     writable |-> writable, named |-> TRUE]]]

\* shm_unlink(name): the name leaves the namespace, the object stays.
shm_unlink(os, size) ==
  [k \in ObjIds |-> IF os[k].exists /\ os[k].named /\ os[k].name = size
                    THEN [os[k] EXCEPT !.named = FALSE] ELSE os[k]]

\* ftruncate64(fd, size): EINVAL on a descriptor not open for writing.
ftruncate64(os, ft, fd, size) ==
  IF os[ft[fd]].writable
  THEN [ok |-> TRUE, objs |-> [os EXCEPT ![ft[fd]].size = size]]
  ELSE [ok |-> FALSE, objs |-> os]

\* CreateFileMappingA(INVALID_HANDLE_VALUE, nullptr, protect, size, name): NULL for
\* size 0 or a full table; a handle to the EXISTING object when the name is taken;
\* else a new named object of `size`.
CreateFileMappingA(size, writable) ==
  IF size = 0 \/ FreeSlots("WIN32") = {}
  THEN [fd |-> 0, fdTable |-> fdTable, objs |-> objs]
  ELSE IF NamedObjs(size) # {}
  THEN [fd |-> LowestFree("WIN32"),
        fdTable |-> [fdTable EXCEPT ![LowestFree("WIN32")] = CHOOSE k \in NamedObjs(size) : TRUE],
        objs |-> objs]
  ELSE [fd |-> LowestFree("WIN32"),
        fdTable |-> [fdTable EXCEPT ![LowestFree("WIN32")] = NextObj],
        objs |-> [objs EXCEPT ![NextObj] =
                    [exists |-> TRUE, name |-> size, size |-> size,
                     writable |-> writable, named |-> TRUE]]]

\* close(fd) / CloseHandle(h): the slot is free again; on Windows the object and
\* its name go with the last handle.
CloseDescriptor(p, d) ==
  LET ft == [fdTable EXCEPT ![d] = 0]
      k == fdTable[d]
  IN [fdTable |-> ft,
      objs |-> IF p = "WIN32" /\ k \in ObjIds /\ ~\E f \in Fds : ft[f] = k
               THEN [objs EXCEPT ![k].named = FALSE] ELSE objs]

\* ---------------------------------------------------------- address space
Range(b, n) == b..(b + n - 1)

InSpace(b, n) == n > 0 /\ Range(b, n) \subseteq Addrs

FreeRange(space, b, n) == InSpace(b, n) /\ \A a \in Range(b, n) : space[a].kind = "free"

Occupied(space, b, n) == \E a \in Range(b, n) \cap Addrs : space[a].kind # "free"

MapPages(space, b, n, id, k, offset) ==
  [a \in Addrs |-> IF a \in Range(b, n)
                   THEN [kind |-> "view", map |-> id, obj |-> k, off |-> offset + (a - b),
                         prot |-> AsMapped]
                   ELSE space[a]]

FreePages(space, S) == [a \in Addrs |-> IF a \in S THEN FreePage ELSE space[a]]

\* mmap64(fixed_address, size, prot, flags, m_shmem_fd, offset): the bases the call
\* may return; none is MAP_FAILED.  EBADF, EINVAL (size 0), EACCES (PROT_WRITE on a
\* read-only descriptor), ENOMEM.  A range beyond the end of the object maps all the
\* same.  MAP_FIXED takes the range whatever is mapped there.
mmap64(fixed, size, writable, fd, offset) ==
  IF ~IsShmFd(fd) \/ size = 0 \/ (writable /\ ~objs[fdTable[fd]].writable) THEN {}
  ELSE IF fixed # NullPtr THEN (IF InSpace(fixed, size) THEN {fixed} ELSE {})
  ELSE {b \in Addrs : FreeRange(addrSpace, b, size)}

\* The length MapViewOfFileEx maps: size 0 means "to the end of the object".
ViewLen(p, h, offset, size) ==
  IF p = "WIN32" /\ size = 0 /\ IsShmFd(h) THEN objs[fdTable[h]].size - offset ELSE size

\* MapViewOfFileEx(m_file_handle, access, offset, size, fixed_address): fails on a
\* bad handle, a range beyond the object, write access to a read-only object, and
\* an occupied or missing address range.
MapViewOfFileEx(h, writable, offset, size, fixed) ==
  IF ~IsShmFd(h) THEN {}
  ELSE IF offset + size > objs[fdTable[h]].size \/ ViewLen("WIN32", h, offset, size) <= 0
          \/ (writable /\ ~objs[fdTable[h]].writable) THEN {}
  ELSE IF fixed # NullPtr
  THEN (IF FreeRange(addrSpace, fixed, ViewLen("WIN32", h, offset, size)) THEN {fixed} ELSE {})
  ELSE {b \in Addrs : FreeRange(addrSpace, b, ViewLen("WIN32", h, offset, size))}

\* munmap(address, size): EINVAL for size 0 or a bad address; else the range is
\* unmapped, whatever was (or was not) mapped there.
munmap(space, address, size) ==
  IF InSpace(address, size)
  THEN [ok |-> TRUE, space |-> FreePages(space, Range(address, size))]
  ELSE [ok |-> FALSE, space |-> space]

\* UnmapViewOfFile(address): fails unless address is the base of a mapped view;
\* unmaps that whole view.
UnmapViewOfFile(space, address) ==
  IF address \in Addrs /\ space[address].kind = "view"
     /\ ~(address - 1 \in Addrs /\ space[address - 1].kind = "view"
          /\ space[address - 1].map = space[address].map)
  THEN [ok |-> TRUE,
        space |-> FreePages(space, {a \in Addrs : space[a].kind = "view"
                                                  /\ space[a].map = space[address].map})]
  ELSE [ok |-> FALSE, space |-> space]

\* msync(address, size, 0): ENOMEM when part of the range is not mapped.
msync(space, address, size) ==
  size = 0 \/ (InSpace(address, size) /\ \A a \in Range(address, size) : space[a].kind # "free")

\* FlushViewOfFile(address, size): fails when the range is not inside a mapped view.
FlushViewOfFile(space, address, size) ==
  /\ address \in Addrs
  /\ space[address].kind = "view"
  /\ \A a \in Range(address, size) : a \in Addrs /\ space[a].kind = "view"

\* The protection argument built from readable, writable, executable.
ProtOf(readable, writable, executable) ==
  (IF readable THEN {"r"} ELSE {}) \cup (IF writable THEN {"w"} ELSE {})
    \cup (IF executable THEN {"x"} ELSE {})

\* The pages of [address, address + length) that mprotect refuses: ENOMEM for a page
\* that is not mapped, EACCES for PROT_WRITE on a shared mapping of an object opened
\* read-only.
Refused(space, os, address, length, prot) ==
  {a \in Range(address, length) :
     \/ a \notin Addrs
     \/ space[a].kind = "free"
     \/ "w" \in prot /\ space[a].kind = "view" /\ ~os[space[a].obj].writable}

\* mprotect(address, length, prot): the range is walked upwards, mapping by
\* mapping; the call stops with -1 at the first page it refuses, and the pages
\* before it keep the new protection.
mprotect(space, os, address, length, prot) ==
  LET bad == Refused(space, os, address, length, prot)
      stop == IF bad = {} THEN address + length
              ELSE CHOOSE a \in bad : \A b \in bad : a <= b
  IN [ok |-> bad = {},
      space |-> [a \in Addrs |-> IF a >= address /\ a < stop
                                 THEN [space[a] EXCEPT !.prot = prot] ELSE space[a]]]

\* VirtualProtect(address, length, protect, &old_protect): fails, changing nothing,
\* for length 0, for a range that is not inside one mapping, and for a protection
\* the mapping does not allow (write access on a view mapped without FILE_MAP_WRITE;
\* granted tells whether the section allows the execute access asked for).
VirtualProtect(space, address, length, prot, mapWritable, granted) ==
  IF /\ InSpace(address, length)
     /\ \A a \in Range(address, length) :
          /\ space[a].kind # "free"
          /\ space[a].kind = space[address].kind /\ space[a].map = space[address].map
     /\ ("w" \in prot /\ space[address].kind = "view") => mapWritable
     /\ ("x" \in prot /\ space[address].kind = "view") => granted
  THEN [ok |-> TRUE,
        space |-> [a \in Addrs |-> IF a \in Range(address, length)
                                   THEN [space[a] EXCEPT !.prot = prot] ELSE space[a]]]
  ELSE [ok |-> FALSE, space |-> space]

\* ------------------------------------------------------------- the program
\* The frontend's signal handling before HookSignals: default dispositions, the
\* handler's static flag false, no requestExit call made, no handler invoked (inv:
\* the invocations of SignalHandler in the order the signals were delivered, each
\* with the signal and the place it has reached), the process running.
SigInit == [hooked |-> FALSE, disp |-> [s \in Signals |-> "default"],
            graceful_shutdown_attempted |-> FALSE, requests |-> 0, inv |-> <<>>,
            exit |-> "none"]

\* No byte written yet: an object is zero-filled.  expect[b]: the value last
\* written through a View to byte b of the arena, the mapping of the View that
\* wrote it (by), the Views created since that View was released (fresh), and
\* whether a write aimed at another byte has landed on b since (spoiled).
NoWrite == [val |-> 0, by |-> 0, fresh |-> {}, spoiled |-> FALSE]

MemInit == [data |-> [k \in ObjIds |-> [b \in Bytes |-> 0]],
            expect |-> [b \in Bytes |-> NoWrite]]

\* A View created from now on is fresh for every byte of its range whose last
\* writer has been released.
Born(m, id, offset, size) ==
  [m EXCEPT !.expect =
     [b \in Bytes |->
        IF b \in Range(offset, size) /\ m.expect[b].by # 0 /\ maps[m.expect[b].by].done
        THEN [m.expect[b] EXCEPT !.fresh = @ \cup {id}] ELSE m.expect[b]]]

Running == ~panicked

\* Panic(msg): reports and terminates the process; it does not return.
Panic == panicked' = TRUE

NoView == [state |-> "none", m_parent |-> FALSE, m_base_pointer |-> NullPtr,
           m_arena_offset |-> 0, m_mapping_size |-> 0, m_writable |-> FALSE, map |-> 0]

\* A destroyed View: its storage is gone.
DeadView == [NoView EXCEPT !.state = "dead"]

NoMap == [made |-> FALSE, writable |-> FALSE, flushes |-> 0, unmaps |-> 0,
          flushedFirst |-> FALSE, done |-> FALSE, flushFailed |-> FALSE,
          unmapFailed |-> FALSE, unmapTried |-> FALSE]

ThIdle == [pc |-> "idle", v |-> 0, base |-> NullPtr, offset |-> 0, size |-> 0,
           writable |-> FALSE, inRange |-> FALSE, sized |-> FALSE, created |-> FALSE,
           occupied |-> FALSE, clobbered |-> FALSE, flushed |-> FALSE]

\* What is recorded of a call when it returns: ok (its result), ret (the address
\* returned), and what held when it was made: inRange (offset + size <= the arena's
\* size), sized (that size is > 0), created (Create had returned true), occupied (a fixed address was given
\* and its range held a mapping), clobbered (a page mapped before the call is
\* mapped differently after it), quiet (m_num_views and the address space are as
\* before the call), reserved / released (the probe's placeholder), frame (the
\* count, the handle, the Views and the process are as before the call), kept (the
\* protection of every page is as before the call).  Of a read or write through a
\* View: match (the value read is the value last written to that byte of the arena
\* through a View), trip (that writer has been released and the reader was created
\* after the release), alias (that writer is another View, still live).
NoCall == [op |-> "none", ok |-> FALSE, ret |-> NullPtr, inRange |-> FALSE, sized |-> FALSE,
           created |-> FALSE, occupied |-> FALSE, clobbered |-> FALSE,
           quiet |-> TRUE, reserved |-> FALSE, released |-> FALSE,
           frame |-> TRUE, kept |-> TRUE,
           match |-> FALSE, trip |-> FALSE, alias |-> FALSE]

FreeViewIds == {v \in DOMAIN views : views[v].state = "none"}

NextView == CHOOSE v \in FreeViewIds : \A u \in FreeViewIds : v <= u

\* The Views that own a mapping.
LiveHolders ==
  {v \in DOMAIN views : views[v].state \in {"alive", "releasing"} /\ views[v].m_parent}

AllIdle == \A t \in Threads : th[t].pc = "idle"

\* m_num_views.fetch_add(1) and m_num_views.fetch_sub(1): the value stored.
FetchAddLost(count) == count

FetchAdd(count) == count + 1

FetchSubTwice(count) == count - 2

FetchSub(count) == count - 1

\* m_num_views when CreateViewPtr returns nullptr: the return comes before the
\* fetch_add.
FailedMapCountAdds(count) == count + 1

FailedMapCount(count) == count

\* View::View(parent, base_pointer, arena_offset, mapping_size, writable)
ViewCtor(parent, base_pointer, arena_offset, mapping_size, writable, id) ==
  [state |-> "alive", m_parent |-> parent, m_base_pointer |-> base_pointer,
   m_arena_offset |-> arena_offset, m_mapping_size |-> mapping_size,
   m_writable |-> writable, map |-> id]

\* What View::View(View&&) leaves in its argument.
MovedFromKeepsParent(view) == view

MovedFrom(view) ==
  [view EXCEPT !.m_parent = FALSE, !.m_base_pointer = NullPtr, !.m_arena_offset = 0,
               !.m_mapping_size = 0, !.map = 0]

\* View::View(View&& view): the initialiser list names m_parent, m_base_pointer,
\* m_arena_offset and m_mapping_size; m_writable is left uninitialised, so the new
\* View holds an indeterminate value there (junk).
MoveCtor(view, junk) ==
  [dst |-> [state |-> "alive", m_parent |-> view.m_parent,
            m_base_pointer |-> view.m_base_pointer,
            m_arena_offset |-> view.m_arena_offset,
            m_mapping_size |-> view.m_mapping_size,
            m_writable |-> junk, map |-> view.map],
   src |-> MovedFrom(view)]

\* MemoryArena::Create(size, writable, executable), one call.
CreateResult(p, size, writable) ==
  IF p = "linux"
  THEN LET o == shm_open(size, writable)
       IN IF o.fd < 0
          THEN [ok |-> FALSE, handle |-> o.fd, fdTable |-> o.fdTable, objs |-> o.objs]
          ELSE LET u == shm_unlink(o.objs, size)
                   f == ftruncate64(u, o.fdTable, o.fd, size)
               IN [ok |-> f.ok, handle |-> o.fd, fdTable |-> o.fdTable, objs |-> f.objs]
  ELSE IF p = "WIN32"
  THEN LET o == CreateFileMappingA(size, writable)
       IN [ok |-> o.fd # 0, handle |-> o.fd, fdTable |-> o.fdTable, objs |-> o.objs]
  ELSE [ok |-> FALSE, handle |-> m_handle, fdTable |-> fdTable, objs |-> objs]

Create(size, writable, executable) ==
  /\ UNCHANGED <<mem, sig>>
  /\ Running /\ arena # "destroyed" /\ AllIdle
  /\ HaveObjSlot
  /\ LET r == CreateResult(platform, size, writable)
     IN /\ m_handle' = r.handle
        /\ fdTable' = r.fdTable
        /\ objs' = r.objs
        /\ arena' = IF r.ok THEN "created" ELSE "failed"
  /\ UNCHANGED <<platform, addrSpace, m_num_views, views, maps, th, panicked, last>>

\* Whether ~MemoryArena closes the descriptor it holds.
DtorCloses(p, d) ==
  IF p = "WIN32" THEN d # 0 ELSE IF p = "linux" THEN d > 0 ELSE FALSE

\* MemoryArena::~MemoryArena.  The caller's contract: every View has been released.
Destroy ==
  /\ UNCHANGED <<mem, sig>>
  /\ Running /\ arena # "destroyed" /\ AllIdle
  /\ LiveHolders = {}
  /\ IF DtorCloses(platform, m_handle) /\ m_handle \in Fds
     THEN /\ fdTable' = CloseDescriptor(platform, m_handle).fdTable
          /\ objs' = CloseDescriptor(platform, m_handle).objs
     ELSE UNCHANGED <<fdTable, objs>>
  /\ arena' = "destroyed"
  /\ UNCHANGED <<platform, addrSpace, m_handle, m_num_views, views, maps, th,
                 panicked, last>>

\* The OS mapping call of CreateViewPtr: the base pointers it may return (none:
\* the call failed), and the length it maps.
MapBases(p, offset, size, writable, fixed) ==
  IF p = "WIN32" THEN MapViewOfFileEx(m_handle, writable, offset, size, fixed)
  ELSE IF p = "linux" THEN mmap64(fixed, size, writable, m_handle, offset)
  ELSE {}

\* MemoryArena::CreateView -> CreateViewPtr, up to the return of the OS mapping
\* call.  A failed mapping returns nullptr, and CreateView std::nullopt, at once.
CreateView_Map(t, offset, size, writable, executable, fixed) ==
  /\ UNCHANGED <<mem, sig>>
  /\ Running /\ arena # "destroyed" /\ th[t].pc = "idle"
  /\ FreeViewIds # {}
  /\ LET bases == MapBases(platform, offset, size, writable, fixed)
         n == ViewLen(platform, m_handle, offset, size)
         id == NextView
         call == [NoCall EXCEPT !.op = "CreateView",
                                !.inRange = (offset + size <= ArenaObj.size),
                                !.sized = (ArenaObj.size > 0),
                                !.created = (arena = "created"),
                                !.occupied = (fixed # NullPtr /\ Occupied(addrSpace, fixed, size))]
     IN IF bases = {}
        THEN /\ UNCHANGED <<addrSpace, views, th>>
             /\ m_num_views' = FailedMapCount(m_num_views)
             /\ last' = [call EXCEPT !.ok = FALSE, !.ret = NullPtr,
                           !.quiet = (addrSpace' = addrSpace /\ m_num_views' = m_num_views)]
        ELSE \E b \in bases :
               /\ addrSpace' = MapPages(addrSpace, b, n, id, fdTable[m_handle], offset)
               /\ views' = [views EXCEPT ![id].state = "pending"]
               /\ th' = [th EXCEPT ![t] =
                           [ThIdle EXCEPT !.pc = "cv_add", !.v = id, !.base = b,
                              !.offset = offset, !.size = size, !.writable = writable,
                              !.inRange = call.inRange, !.sized = call.sized,
                              !.created = call.created,
                              !.occupied = call.occupied,
                              !.clobbered = Occupied(addrSpace, b, n)]]
               /\ UNCHANGED <<last, m_num_views>>
  /\ UNCHANGED <<platform, fdTable, objs, m_handle, arena, maps, panicked>>

\* The rest of CreateViewPtr and CreateView: m_num_views.fetch_add(1), then the
\* View is constructed and moved into the std::optional that is returned (the
\* temporary it was moved from is destroyed empty).
CreateView_Add(t) ==
  /\ UNCHANGED sig
  /\ mem' = Born(mem, th[t].v, th[t].offset, th[t].size)
  /\ Running /\ th[t].pc = "cv_add"
  /\ m_num_views' = FetchAdd(m_num_views)
  /\ \E junk \in BOOLEAN :
       views' = [views EXCEPT ![th[t].v] =
                   MoveCtor(ViewCtor(TRUE, th[t].base, th[t].offset, th[t].size,
                                     th[t].writable, th[t].v), junk).dst]
  /\ maps' = [maps EXCEPT ![th[t].v] = [NoMap EXCEPT !.made = TRUE, !.writable = th[t].writable]]
  /\ last' = [NoCall EXCEPT !.op = "CreateView", !.ok = TRUE, !.ret = th[t].base,
                            !.inRange = th[t].inRange, !.sized = th[t].sized,
                            !.created = th[t].created, !.occupied = th[t].occupied,
                            !.clobbered = th[t].clobbered, !.quiet = FALSE]
  /\ th' = [th EXCEPT ![t] = ThIdle]
  /\ UNCHANGED <<platform, fdTable, objs, addrSpace, m_handle, arena, panicked>>

\* View::View(View&&), called by the holder of View v.
Move(v) ==
  /\ UNCHANGED <<mem, sig>>
  /\ Running /\ views[v].state = "alive"
  /\ FreeViewIds # {}
  /\ \E junk \in BOOLEAN :
       LET r == MoveCtor(views[v], junk)
       IN /\ views' = [views EXCEPT ![v] = r.src, ![NextView] = r.dst]
          /\ last' = [NoCall EXCEPT !.op = "Move",
                        !.ok = /\ r.dst.m_parent = views[v].m_parent
                               /\ r.dst.m_base_pointer = views[v].m_base_pointer
                               /\ r.dst.m_arena_offset = views[v].m_arena_offset
                               /\ r.dst.m_mapping_size = views[v].m_mapping_size
                               /\ r.dst.m_writable = views[v].m_writable
                               /\ ~r.src.m_parent
                               /\ r.src.m_base_pointer = NullPtr
                               /\ r.src.m_arena_offset = 0
                               /\ r.src.m_mapping_size = 0]
  /\ UNCHANGED <<platform, fdTable, objs, addrSpace, m_handle, m_num_views, arena,
                 maps, th, panicked>>

\* MemoryArena::FlushViewPtr(address, size)
FlushViewPtr(p, address, size) ==
  IF p = "WIN32" THEN FlushViewOfFile(addrSpace, address, size)
  ELSE IF p = "linux" THEN msync(addrSpace, address, size)
  ELSE FALSE

\* The unmapping call of MemoryArena::ReleaseViewPtr(address, size)
ReleaseUnmap(p, address, size) ==
  IF p = "WIN32" THEN UnmapViewOfFile(addrSpace, address)
  ELSE IF p = "linux" THEN munmap(addrSpace, address, size)
  ELSE [ok |-> FALSE, space |-> addrSpace]

\* View::~View decides on the flush with the View's own m_writable.
DtorFlushes(view) == view.m_writable

\* View::~View after a flush that returned ok: on to the unmap, or Panic.
AfterFlushIgnoresFailure(ok) == "rel_unmap"

AfterFlush(ok) == IF ok THEN "rel_unmap" ELSE "panic"

\* View::~View, up to the return of FlushViewPtr.  An empty View (m_parent null)
\* is destroyed without any call.
Dtor_Begin(t, v) ==
  /\ UNCHANGED <<mem, sig>>
  /\ Running /\ th[t].pc = "idle" /\ views[v].state = "alive"
  /\ UNCHANGED <<platform, fdTable, objs, addrSpace, m_handle, m_num_views, arena>>
  /\ IF ~views[v].m_parent
     THEN /\ views' = [views EXCEPT ![v] = DeadView]
          /\ UNCHANGED <<th, maps, panicked>>
          /\ last' = [NoCall EXCEPT !.op = "DtorEmpty", !.ok = TRUE,
                        !.quiet = /\ maps' = maps
                                  /\ addrSpace' = addrSpace
                                  /\ m_num_views' = m_num_views]
     ELSE LET flush == DtorFlushes(views[v])
              ok == ~flush \/ FlushViewPtr(platform, views[v].m_base_pointer,
                                           views[v].m_mapping_size)
              id == views[v].map
          IN /\ maps' = [maps EXCEPT ![id].flushes = @ + (IF flush /\ ok THEN 1 ELSE 0),
                                     ![id].flushFailed = ~ok]
             /\ IF AfterFlush(ok) = "panic"
                THEN Panic /\ UNCHANGED <<th, views>>
                ELSE /\ views' = [views EXCEPT ![v].state = "releasing"]
                     /\ th' = [th EXCEPT ![t] = [ThIdle EXCEPT !.pc = "rel_unmap", !.v = v,
                                                               !.flushed = flush /\ ok]]
                     /\ UNCHANGED panicked
             /\ UNCHANGED last

\* ReleaseViewPtr's unmapping call; a failure returns false and ~View panics.
Dtor_Unmap(t) ==
  /\ UNCHANGED <<mem, sig>>
  /\ Running /\ th[t].pc = "rel_unmap"
  /\ LET v == th[t].v
         id == views[v].map
         r == ReleaseUnmap(platform, views[v].m_base_pointer, views[v].m_mapping_size)
     IN IF r.ok
        THEN /\ addrSpace' = r.space
             /\ maps' = [maps EXCEPT ![id].unmaps = @ + 1, ![id].unmapTried = TRUE,
                                     ![id].flushedFirst = th[t].flushed]
             /\ th' = [th EXCEPT ![t].pc = "rel_sub"]
             /\ UNCHANGED panicked
        ELSE /\ maps' = [maps EXCEPT ![id].unmapFailed = TRUE, ![id].unmapTried = TRUE]
             /\ Panic
             /\ UNCHANGED <<addrSpace, th>>
  /\ UNCHANGED <<platform, fdTable, objs, m_handle, m_num_views, arena, views, last>>

\* The rest of ReleaseViewPtr: m_num_views.fetch_sub(1) and Assert(prev_count > 0);
\* ~View returns.
Dtor_Sub(t) ==
  /\ UNCHANGED <<mem, sig>>
  /\ Running /\ th[t].pc = "rel_sub"
  /\ m_num_views' = FetchSub(m_num_views)
  /\ IF m_num_views > 0 THEN UNCHANGED panicked ELSE Panic
  /\ views' = [views EXCEPT ![th[t].v] = DeadView]
  /\ maps' = [maps EXCEPT ![views[th[t].v].map].done = TRUE]
  /\ th' = [th EXCEPT ![t] = ThIdle]
  /\ UNCHANGED <<platform, fdTable, objs, addrSpace, m_handle, arena, last>>

\* What the reservation of FindBaseAddressForMapping may return: an address, or on
\* failure VirtualAlloc's NULL / mmap's MAP_FAILED.
ReserveResults(p, size) ==
  IF p = "other" THEN {NullPtr}
  ELSE IF {b \in Addrs : FreeRange(addrSpace, b, size)} # {}
  THEN {b \in Addrs : FreeRange(addrSpace, b, size)}
  ELSE IF p = "linux" THEN {MapFailed} ELSE {NullPtr}

\* if (base_address) ... / if (!base_address) return nullptr;
ProbeSucceeded(base_address) == base_address # NullPtr

\* MemoryArena::FindBaseAddressForMapping(size), one call.
FindBaseAddressForMapping(size) ==
  /\ UNCHANGED <<mem, sig>>
  /\ Running
  /\ \E base_address \in ReserveResults(platform, size) :
       LET reserved == base_address \in Addrs
           held == IF reserved
                   THEN [a \in Addrs |-> IF a \in Range(base_address, size)
                                         THEN [kind |-> "probe", map |-> 0, obj |-> 0, off |-> 0,
                                               prot |-> ProtNone]
                                         ELSE addrSpace[a]]
                   ELSE addrSpace
           freed == IF ProbeSucceeded(base_address) /\ platform # "other"
                    THEN munmap(held, base_address, size).space
                    ELSE held
       IN /\ addrSpace' = freed
          /\ last' = [NoCall EXCEPT !.op = "Probe", !.reserved = reserved,
                        !.ok = ProbeSucceeded(base_address),
                        !.ret = IF ProbeSucceeded(base_address) THEN base_address ELSE NullPtr,
                        !.released = /\ reserved
                                     /\ \A a \in Range(base_address, size) : freed[a].kind = "free",
                        !.quiet = (freed = addrSpace)]
  /\ UNCHANGED <<platform, fdTable, objs, m_handle, m_num_views, arena, views, maps,
                 th, panicked>>

\* The writable argument of the create_view call that made mapping id.
MapWritable(id) ==
  IF id \in DOMAIN maps /\ maps[id].made THEN maps[id].writable
  ELSE \E t \in Threads : th[t].pc = "cv_add" /\ th[t].v = id /\ th[t].writable

\* The platform call of SetPageProtection.
ProtectResult(p, address, length, prot, granted) ==
  IF p = "WIN32"
  THEN VirtualProtect(addrSpace, address, length, prot,
                      address \in Addrs /\ MapWritable(addrSpace[address].map), granted)
  ELSE IF p = "linux" THEN mprotect(addrSpace, objs, address, length, prot)
  ELSE [ok |-> FALSE, space |-> addrSpace]

\* MemoryArena::SetPageProtection(address, length, readable, writable, executable),
\* one call; granted: whether the section was created with the execute access
\* asked for (WIN32).
SetPageProtection(address, length, readable, writable, executable, granted) ==
  /\ UNCHANGED <<mem, sig>>
  /\ Running
  /\ UNCHANGED <<platform, fdTable, objs, m_handle, m_num_views, arena, views, maps,
                 th, panicked>>
  /\ LET r == ProtectResult(platform, address, length,
                            ProtOf(readable, writable, executable), granted)
     IN /\ addrSpace' = r.space
        /\ last' = [NoCall EXCEPT !.op = "Protect", !.ok = r.ok,
                      !.frame = /\ m_num_views' = m_num_views /\ m_handle' = m_handle
                                /\ views' = views /\ panicked' = panicked,
                      !.kept = \A a \in Addrs : r.space[a].prot = addrSpace[a].prot]

\* ----------------------------------------- the bytes, through the base pointer
\* Whether a store to / a load from the page is allowed by its protection.
PageWritable(pg) == IF pg.prot = AsMapped THEN MapWritable(pg.map) ELSE "w" \in pg.prot

PageReadable(pg) == pg.prot = AsMapped \/ "r" \in pg.prot

\* Whether the access raises SIGSEGV / SIGBUS (an access violation): no page, a page
\* whose protection forbids it, or a page of the mapping that lies beyond the end
\* of the object.
Faults(pg, store) ==
  \/ pg.kind = "free"
  \/ IF store THEN ~PageWritable(pg) ELSE ~PageReadable(pg)
  \/ pg.kind = "view" /\ pg.off >= objs[pg.obj].size

\* The holder of View v stores val at m_base_pointer + i (i < m_mapping_size).  A
\* shared mapping has no copy of its own: the store is to the object's page.
Write(v, i, val) ==
  /\ Running /\ views[v].state = "alive" /\ views[v].m_parent
  /\ i \in 0..(views[v].m_mapping_size - 1)
  /\ views[v].m_base_pointer + i \in Addrs
  /\ UNCHANGED <<platform, fdTable, objs, addrSpace, m_handle, m_num_views, arena,
                 views, maps, th, sig>>
  /\ LET pg == addrSpace[views[v].m_base_pointer + i]
         b == views[v].m_arena_offset + i
         call == [NoCall EXCEPT !.op = "Write"]
     IN IF Faults(pg, TRUE)
        THEN /\ panicked' = TRUE
             /\ mem' = mem
             /\ last' = [call EXCEPT !.ok = FALSE]
        ELSE /\ panicked' = panicked
             /\ last' = [call EXCEPT !.ok = TRUE]
             /\ mem' =
                  [data |-> IF pg.kind = "view"
                            THEN [mem.data EXCEPT ![pg.obj][pg.off] = val] ELSE mem.data,
                   expect |-> [c \in Bytes |->
                                 IF c = b
                                 THEN [val |-> val, by |-> views[v].map, fresh |-> {},
                                       spoiled |-> FALSE]
                                 ELSE IF pg.kind = "view" /\ c = pg.off
                                 THEN [mem.expect[c] EXCEPT !.spoiled = TRUE]
                                 ELSE mem.expect[c]]]

\* The holder of View v loads from m_base_pointer + i (i < m_mapping_size).
Read(v, i) ==
  /\ Running /\ views[v].state = "alive" /\ views[v].m_parent
  /\ i \in 0..(views[v].m_mapping_size - 1)
  /\ views[v].m_base_pointer + i \in Addrs
  /\ UNCHANGED <<platform, fdTable, objs, addrSpace, m_handle, m_num_views, arena,
                 views, maps, th, mem, sig>>
  /\ LET pg == addrSpace[views[v].m_base_pointer + i]
         b == views[v].m_arena_offset + i
         e == mem.expect[b]
         call == [NoCall EXCEPT !.op = "Read",
                    !.trip = (e.by # 0 /\ maps[e.by].done /\ views[v].map \in e.fresh),
                    !.alias = (e.by # 0 /\ e.by # views[v].map /\ ~maps[e.by].done)]
     IN IF Faults(pg, FALSE)
        THEN /\ panicked' = TRUE
             /\ last' = [call EXCEPT !.ok = FALSE]
        ELSE /\ panicked' = panicked
             /\ \E val \in Values :
                  /\ pg.kind = "view" => val = mem.data[pg.obj][pg.off]
                  /\ last' = [call EXCEPT !.ok = TRUE, !.ret = val,
                                          !.match = (val = e.val \/ e.spoiled)]

\* ------------------------------------------------- the frontend's signals
ArenaVars == <<platform, fdTable, objs, addrSpace, m_handle, m_num_views, arena,
               views, maps, th, panicked, last, mem>>

\* HookSignals(), called once by main.
HookSignals ==
  /\ Running /\ sig.exit = "none" /\ ~sig.hooked
  /\ sig' = [sig EXCEPT !.hooked = TRUE, !.disp = [s \in Signals |-> "handler"]]
  /\ UNCHANGED ArenaVars

\* Whether the C library resets the disposition to SIG_DFL when it calls a handler
\* installed with signal(): the Windows runtime does, glibc and the BSDs do not.
ResetsOnDelivery(p) == p = "WIN32"

\* Signal s is delivered to a thread of the process after main has installed the
\* hooks.  Under the default disposition it terminates the process; otherwise
\* SignalHandler(s) is entered, whatever other invocations are still running.
Deliver(s) ==
  /\ Running /\ sig.exit = "none" /\ sig.hooked
  /\ Len(sig.inv) < MaxSignals
  /\ IF sig.disp[s] = "default"
     THEN sig' = [sig EXCEPT !.exit = "killed"]
     ELSE sig' = [sig EXCEPT !.inv = Append(@, [signal |-> s, pc |-> "test"]),
                            !.disp[s] = IF ResetsOnDelivery(platform) THEN "default" ELSE @]
  /\ UNCHANGED ArenaVars

\* SignalHandler: if (!graceful_shutdown_attempted)
SignalHandler_Test(i) ==
  /\ Running /\ sig.exit = "none"
  /\ i \in 1..Len(sig.inv) /\ sig.inv[i].pc = "test"
  /\ sig' = [sig EXCEPT !.inv[i].pc =
                          IF ~sig.graceful_shutdown_attempted THEN "set" ELSE "reset"]
  /\ UNCHANGED ArenaVars

\* SignalHandler: fprintf(...); graceful_shutdown_attempted = true;
SignalHandler_Set(i) ==
  /\ Running /\ sig.exit = "none"
  /\ i \in 1..Len(sig.inv) /\ sig.inv[i].pc = "set"
  /\ sig' = [sig EXCEPT !.graceful_shutdown_attempted = TRUE, !.inv[i].pc = "request"]
  /\ UNCHANGED ArenaVars

\* SignalHandler: g_emu_thread->requestExit(); return;
SignalHandler_Request(i) ==
  /\ Running /\ sig.exit = "none"
  /\ i \in 1..Len(sig.inv) /\ sig.inv[i].pc = "request"
  /\ sig' = [sig EXCEPT !.requests = @ + 1, !.inv[i].pc = "returned"]
  /\ UNCHANGED ArenaVars

\* SignalHandler: std::signal(signal, SIG_DFL);
SignalHandler_Reset(i) ==
  /\ Running /\ sig.exit = "none"
  /\ i \in 1..Len(sig.inv) /\ sig.inv[i].pc = "reset"
  /\ sig' = [sig EXCEPT !.disp[sig.inv[i].signal] = "default", !.inv[i].pc = "exit"]
  /\ UNCHANGED ArenaVars

\* SignalHandler: std::quick_exit(1) / _Exit(1)
SignalHandler_Exit(i) ==
  /\ Running /\ sig.exit = "none"
  /\ i \in 1..Len(sig.inv) /\ sig.inv[i].pc = "exit"
  /\ sig' = [sig EXCEPT !.exit = "exit1", !.inv[i].pc = "exited"]
  /\ UNCHANGED ArenaVars

\* Code outside the component maps a free page, or unmaps a mapped one.
ExtMap(a) ==
  /\ UNCHANGED <<mem, sig>>
  /\ Running /\ addrSpace[a].kind = "free"
  /\ addrSpace' = [addrSpace EXCEPT ![a] = ExtPage]
  /\ UNCHANGED <<platform, fdTable, objs, m_handle, m_num_views, arena, views, maps,
                 th, panicked, last>>

ExtUnmap(a) ==
  /\ UNCHANGED <<mem, sig>>
  /\ Running /\ addrSpace[a].kind # "free"
  /\ addrSpace' = [addrSpace EXCEPT ![a] = FreePage]
  /\ UNCHANGED <<platform, fdTable, objs, m_handle, m_num_views, arena, views, maps,
                 th, panicked, last>>

\* MemoryArena::MemoryArena() = default, in a process whose descriptor 0 is in use
\* or (POSIX) closed.
Init ==
  /\ platform \in Platforms
  /\ fdTable \in {[f \in Fds |-> IF f = 0 THEN 0 - 1 ELSE 0]} \cup
                 (IF platform = "linux" THEN {[f \in Fds |-> 0]} ELSE {})
  /\ objs = [k \in ObjIds |-> NoObj]
  /\ addrSpace = [a \in Addrs |-> FreePage]
  /\ m_handle = NoDescriptor(platform)
  /\ m_num_views = 0
  /\ arena = "new"
  /\ views = [v \in ViewIds |-> NoView]
  /\ maps = [v \in ViewIds |-> NoMap]
  /\ th = [t \in Threads |-> ThIdle]
  /\ panicked = FALSE
  /\ last = NoCall
  /\ mem = MemInit
  /\ sig = SigInit

\* One arena's life in a running process: Create once at startup, before any view
\* activity; then the threads create, move and release views while code outside
\* the component may unmap pages; then ~MemoryArena.
Next ==
  \/ \E size \in Sizes, writable \in BOOLEAN, executable \in BOOLEAN :
       arena = "new" /\ Create(size, writable, executable)
  \/ Destroy
  \/ \E t \in Threads, offset \in Sizes, size \in Sizes, writable \in BOOLEAN,
        executable \in BOOLEAN, fixed \in {NullPtr} \cup Addrs :
       CreateView_Map(t, offset, size, writable, executable, fixed)
  \/ \E t \in Threads : CreateView_Add(t)
  \/ \E v \in ViewIds : Move(v)
  \/ \E t \in Threads, v \in ViewIds : Dtor_Begin(t, v)
  \/ \E t \in Threads : Dtor_Unmap(t)
  \/ \E t \in Threads : Dtor_Sub(t)
  \/ \E a \in Addrs : ExtUnmap(a)

Spec == Init /\ [][Next]_vars

\* The arena alone: any sequence of Create calls, then ~MemoryArena.
NextArena ==
  \/ \E size \in Sizes, writable \in BOOLEAN, executable \in BOOLEAN :
       Create(size, writable, executable)
  \/ Destroy

SpecArena == Init /\ [][NextArena]_vars

\* Laying out views: Create at startup, then address probes and create_view calls
\* while code outside the component maps pages of its own.
NextMap ==
  \/ \E size \in Sizes, writable \in BOOLEAN, executable \in BOOLEAN :
       arena = "new" /\ Create(size, writable, executable)
  \/ \E size \in 0..MaxAddr : FindBaseAddressForMapping(size)
  \/ \E t \in Threads, offset \in Sizes, size \in Sizes, writable \in BOOLEAN,
        executable \in BOOLEAN, fixed \in {NullPtr} \cup Addrs :
       CreateView_Map(t, offset, size, writable, executable, fixed)
  \/ \E t \in Threads : CreateView_Add(t)
  \/ \E a \in Addrs : ExtMap(a)

SpecMap == Init /\ [][NextMap]_vars

\* Changing protections: Create at startup, one thread maps one view, and any
\* protection change is asked for on any range of the address space.
NextProt ==
  \/ \E size \in Sizes, writable \in BOOLEAN, executable \in BOOLEAN :
       arena = "new" /\ Create(size, writable, executable)
  \/ \E offset \in Sizes, size \in Sizes, writable \in BOOLEAN,
        executable \in BOOLEAN, fixed \in {NullPtr} \cup Addrs :
       m_num_views = 0 /\ CreateView_Map(1, offset, size, writable, executable, fixed)
  \/ \E t \in Threads : CreateView_Add(t)
  \/ \E address \in {NullPtr} \cup Addrs, length \in 0..MaxAddr, readable \in BOOLEAN,
        writable \in BOOLEAN, executable \in BOOLEAN, granted \in BOOLEAN :
       SetPageProtection(address, length, readable, writable, executable, granted)

SpecProt == Init /\ [][NextProt]_vars

\* Using the views: a writable arena of MemSize pages is created at startup, then
\* one thread creates writable views of one page inside it, stores and loads
\* through them, and releases them; up to MemViews views are created.
InitMem ==
  /\ platform \in Platforms
  /\ fdTable = [f \in Fds |-> IF f = 0 THEN 0 - 1 ELSE 0]
  /\ objs = [k \in ObjIds |-> NoObj]
  /\ addrSpace = [a \in Addrs |-> FreePage]
  /\ m_handle = NoDescriptor(platform)
  /\ m_num_views = 0
  /\ arena = "new"
  /\ views = [v \in MemViewIds |-> NoView]
  /\ maps = [v \in MemViewIds |-> NoMap]
  /\ th = [t \in Threads |-> ThIdle]
  /\ panicked = FALSE
  /\ last = NoCall
  /\ mem = MemInit
  /\ sig = SigInit

NextMem ==
  \/ \E writable \in BOOLEAN, executable \in BOOLEAN :
       arena = "new" /\ Create(MemSize, writable, executable)
  \/ \E offset \in 0..(MemSize - 1), executable \in BOOLEAN, fixed \in {NullPtr} \cup Addrs :
       CreateView_Map(1, offset, 1, TRUE, executable, fixed)
  \/ \E t \in Threads : CreateView_Add(t)
  \/ \E v \in MemViewIds, i \in Bytes, val \in 1..MaxVal : Write(v, i, val)
  \/ \E v \in MemViewIds, i \in Bytes : Read(v, i)
  \/ \E v \in MemViewIds : Dtor_Begin(1, v)
  \/ \E t \in Threads : Dtor_Unmap(t)
  \/ \E t \in Threads : Dtor_Sub(t)

SpecMem == InitMem /\ [][NextMem]_vars

\* The frontend's signals: main installs the hooks, then up to MaxSignals signals
\* are delivered at any time, each invocation of the handler running at its own
\* pace.
NextSignal ==
  \/ HookSignals
  \/ \E s \in Signals : Deliver(s)
  \/ \E i \in 1..MaxSignals : SignalHandler_Test(i)
  \/ \E i \in 1..MaxSignals : SignalHandler_Set(i)
  \/ \E i \in 1..MaxSignals : SignalHandler_Request(i)
  \/ \E i \in 1..MaxSignals : SignalHandler_Reset(i)
  \/ \E i \in 1..MaxSignals : SignalHandler_Exit(i)

SpecSignal == Init /\ [][NextSignal]_vars

\* ------------------------------------------------------------------ claims
\* N: the create_view calls that have returned a View; M: the releases completed.
NumCreated == Cardinality({id \in ViewIds : maps[id].made})

NumReleased == Cardinality({id \in ViewIds : maps[id].done})

\* The Views that hold mapping id and have not finished their release.
Holders(id) ==
  {v \in ViewIds : views[v].state \in {"alive", "releasing"} /\ views[v].m_parent
                   /\ views[v].map = id}

\* C1: on a created arena of size S > 0, a create_view request with
\* offset + size > S returns failure and leaves the live-view count and the address
\* space as they were (so that create_view succeeds only if offset + size <= S).
C1_OutOfRangeFails ==
  (last.op = "CreateView" /\ last.created /\ last.sized /\ ~last.inRange)
    => (~last.ok /\ last.quiet)

\* C2: the live-view count equals the number of create_view calls that returned a
\* View minus the number of releases completed, in every state of every
\* interleaving of the threads.
C2_CountIsCreatedMinusReleased == m_num_views = NumCreated - NumReleased

C2_Witness ==
  /\ AllIdle /\ ~panicked
  /\ NumCreated = 2 /\ NumReleased = 1
  /\ m_num_views = 1

\* C3: create_view (here on a created arena, for a range inside it) with a
\* fixed_address whose range already holds a mapping returns failure, leaves that
\* mapping as it was and leaves the live-view count unchanged.
C3_FixedCollisionFails ==
  (last.op = "CreateView" /\ last.created /\ last.inRange /\ last.occupied)
    => (~last.ok /\ ~last.clobbered /\ last.quiet)

\* C4: a move gives the destination every attribute of the source (parent, base,
\* offset, size and the writable flag) and leaves the source empty.
C4_MoveTransfersAll == last.op = "Move" => last.ok

\* Every mapping create_view produced has exactly one View that will release it
\* until it is unmapped, is unmapped at most once, and has been unmapped exactly
\* once, and is held by no View, when its release completed; the release of an
\* empty View changed no mapping, no flush or unmap record and not the count.
C5_OneHolder ==
  /\ \A id \in ViewIds :
       maps[id].made =>
         /\ maps[id].unmaps <= 1
         /\ Cardinality(Holders(id)) <= 1
         /\ maps[id].unmaps = 0 => Cardinality(Holders(id)) = 1
         /\ \A v \in Holders(id) : maps[id].unmaps = 1 => views[v].state = "releasing"
         /\ maps[id].done => (maps[id].unmaps = 1 /\ Holders(id) = {})
  /\ last.op = "DtorEmpty" => last.quiet

\* A destroyed View stays destroyed, and a released mapping stays released.
C5_NoRevival ==
  \A v \in ViewIds :
    /\ views[v].state = "dead" => views'[v].state = "dead"
    /\ (views[v].map # 0 /\ maps[views[v].map].done) => maps'[views[v].map].done

\* C5: every mapping produced by a successful create_view is unmapped exactly once
\* over the lifetime of the Views that held it, for any number of moves: the
\* release of its holder unmaps it and decrements the count once, the release of a
\* moved-from View does nothing, and no View returns from Released to Mapped.
C5_UnmappedExactlyOnce == []C5_OneHolder /\ [][C5_NoRevival]_vars

C5_Witness ==
  \E id \in ViewIds, v \in ViewIds :
    /\ maps[id].done /\ maps[id].unmaps = 1
    /\ v # id /\ views[id].state = "dead" /\ views[v].state = "dead"
    /\ last.op = "DtorEmpty"

\* C6: the unmap of a mapping created writable is preceded by a flush in the same
\* release, and a mapping created non-writable is unmapped without a flush.
C6_FlushBeforeUnmap ==
  \A id \in ViewIds :
    maps[id].unmaps > 0 => (maps[id].flushedFirst <=> maps[id].writable)

\* A failed flush has panicked with no unmap attempted and no decrement; a failed
\* unmap has panicked with no decrement.
C7_FailureIsFatal ==
  \A id \in ViewIds :
    /\ maps[id].flushFailed =>
         (panicked /\ ~maps[id].unmapTried /\ ~maps[id].done
          /\ m_num_views = NumCreated - NumReleased)
    /\ maps[id].unmapFailed =>
         (panicked /\ maps[id].unmaps = 0 /\ ~maps[id].done
          /\ m_num_views = NumCreated - NumReleased)

\* C7: a flush or unmap that fails during the release of a View ends in the panic
\* state, after which nothing runs: a failed flush with no unmap attempted and no
\* decrement of the live-view count, a failed unmap with no decrement.
C7_ReleaseFailurePanics == []C7_FailureIsFatal /\ [][panicked => UNCHANGED vars]_vars

C7_Witness == panicked /\ m_num_views > 0 /\ \E id \in ViewIds : maps[id].flushFailed

\* C8: the probe returns an address only when the reservation succeeded, and that
\* range is free again; when the reservation failed it returns null, leaves the
\* address space alone and never returns the failure sentinel.
C8_ProbeResult ==
  last.op = "Probe" =>
    /\ last.ret # NullPtr => (last.reserved /\ last.released)
    /\ ~last.reserved => (last.ret = NullPtr /\ last.quiet)
    /\ last.ret # MapFailed

\* C9: once ~MemoryArena has run, no descriptor that Create opened is still open.
C9_NoDescriptorLeak ==
  arena = "destroyed" => \A f \in Fds : fdTable[f] \notin ObjIds

\* C10: between calls, no shared-memory object that Create made is still named.
C10_NoNameRemains == \A k \in ObjIds : objs[k].exists => ~objs[k].named

\* C11: an arena whose Create returned true has a backing object of size > 0 (so
\* that Create(0, ...) returns false).
C11_CreatedHasSize == arena = "created" => ArenaObj.size > 0

\* C17: create_view returns failure on an arena whose Create was never called or
\* returned false, at whatever step it failed.
C17_NoViewWithoutArena == (last.op = "CreateView" /\ ~last.created) => ~last.ok

\* A create_view that returned failure returned nullptr / nullopt and left the
\* live-view count and the address space as they were.
C15_FailedCall ==
  (last.op = "CreateView" /\ ~last.ok) => (last.ret = NullPtr /\ last.quiet)

\* The step in which create_view returns failure constructs no View and starts
\* no release: no View object, mapping record or thread changes.
C15_NoViewBuilt ==
  (last' # last /\ last'.op = "CreateView" /\ ~last'.ok)
    => (views' = views /\ maps' = maps /\ th' = th)

\* C15: whenever create_view fails it returns an empty result, constructs no View
\* object and leaves the live-view count exactly as it was before the call.
C15_FailedCreateViewIsClean == []C15_FailedCall /\ [][C15_NoViewBuilt]_vars

C15_Witness ==
  /\ last.op = "CreateView" /\ ~last.ok
  /\ last.created /\ last.sized /\ last.inRange
  /\ m_num_views = 1

\* C16: the live-view count is never negative and equals the number of Views that
\* hold a mapping, and the fetch_sub of a release always finds a count > 0, in
\* every interleaving of create_view calls and releases.
C16_CountIsMappedViews ==
  /\ m_num_views >= 0
  /\ m_num_views = Cardinality(LiveHolders)
  /\ \A t \in Threads : th[t].pc = "rel_sub" => m_num_views > 0

C16_Witness == m_num_views = 2 /\ \A t \in Threads : th[t].pc = "rel_sub"

\* C14: set_page_protection leaves the live-view count, the backing handle and
\* every View as they were and never panics; a change the OS rejects returns false
\* and leaves the protection of every page as it was.
C14_ProtectionIsPassThrough ==
  last.op = "Protect" => (last.frame /\ (~last.ok => last.kept))

\* C12: a read through a fresh View, created after the View that last wrote the
\* byte was released, yields the value that View wrote at that index, no other
\* write to that byte of the arena having happened in between.
C12_WriteRoundTrip == (last.op = "Read" /\ last.trip) => (last.ok /\ last.match)

\* A create_view for a range that overlaps the range of a live View leaves every
\* page of that View's mapping as it was.
C13_NoDisturb ==
  \A t \in Threads, v \in DOMAIN views :
    (/\ th[t].pc = "idle" /\ th'[t].pc = "cv_add"
     /\ views[v].state = "alive" /\ views[v].m_parent
     /\ Range(th'[t].offset, th'[t].size)
          \cap Range(views[v].m_arena_offset, views[v].m_mapping_size) # {})
      => \A a \in Addrs :
           (addrSpace[a].kind = "view" /\ addrSpace[a].map = views[v].map)
             => addrSpace'[a] = addrSpace[a]

\* A read through a View of a byte last written through another View that is still
\* live yields the value written.
C13_SeesWrite == (last.op = "Read" /\ last.alias) => (last.ok /\ last.match)

\* C13: create_view succeeds for a range overlapping that of a live View without
\* disturbing that View, and a write through one of two live overlapping Views is
\* read back through the other.
C13_Aliasing == []C13_SeesWrite /\ [][C13_NoDisturb]_vars

\* C18: with the hooks installed, the handler of the first signal delivered takes
\* the graceful path (requestExit, return) and the process goes on; the handler of
\* every later signal takes the forced path (SIG_DFL, exit status 1); the process
\* ends in no other way; requestExit is called at most once.
C18_GracefulThenForced ==
  /\ sig.requests <= 1
  /\ sig.exit \in {"none", "exit1"}
  /\ \A i \in 1..Len(sig.inv) :
       IF i = 1 THEN sig.inv[i].pc \in {"test", "set", "request", "returned"}
       ELSE sig.inv[i].pc \in {"test", "reset", "exit", "exited"}

====
